---- MODULE Spec2Model ----
(***************************************************************************)
(* CodeWaveRPC: the client call multiplexer (Client, Call) and the day-1   *)
(* server dispatch engine (Server, GobCodec), as state machines.           *)
(*                                                                         *)
(* ClientSpec: one Client with MaxCalls concurrent Go invocations, its     *)
(* receive goroutine, Close, the peer answering request frames and the     *)
(* invoker draining a shared Done channel.                                 *)
(* ServerSpec: one connection served by Server.ServeConn: the handshake,   *)
(* the read loop of serveCodec, one handleRequest goroutine per request,   *)
(* GobCodec.Write under the sending mutex, and the peer of main().         *)
(***************************************************************************)
EXTENDS Integers, Sequences, FiniteSets, TLC

\* ------------------------------------------------------------------ bounds
MaxCalls == 3
\* capacity of the Done channel several calls share (caller-supplied)
SharedCap == 1
\* request frames the peer sends on one connection
MaxReqs == 3
\* invocations of Client.Close on one client
MaxCloses == 2

\* ------------------------------------------------------- program constants
\* newClientCodec: seq starts with 1, 0 means invalid call
InitSeq == 1
\* Go: done = make(chan *Call, 10)
DefaultDoneCap == 10
\* const MagicNumber = 0x3bef5c
MagicNumber == 3927900

Calls == 1..MaxCalls
NoCall == 0
\* the goroutine running Client.receive, as a lock holder
Receiver == MaxCalls + 1
NoOne == 0

ErrNil == "nil"
ErrShutdown == "connection is shut down"
ErrWrite == "write error"
ErrRead == "read error"
ErrResp == "header error"
ErrBody == "reading body"
\* Close returns what client.cc.Close() returned
CodecClose == "cc.Close()"

FooSum == "Foo.Sum"
BarNope == "Bar.Nope"

GobType == "application/gob"
JsonType == "application/json"

VARIABLES
    \* ---- Client fields
    seq,        \* client.seq
    pending,    \* client.pending: seq -> call
    closing,    \* client.closing
    shutdown,   \* client.shutdown
    sending,    \* holder of client.sending (NoOne: unlocked)
    mu,         \* holder of client.mu across terminateCalls (NoOne: unlocked)
    header,     \* client.header
    connOpen,   \* the stream under client.cc is open
    \* ---- Call fields and the goroutine of each Go invocation
    pc,         \* position of the invocation of call c
    callSeq,    \* call.Seq
    callErr,    \* call.Error
    invokerChan,\* what the invoker passes as done to Go: "nil", or "shared" (one buffered channel)
    doneChan,   \* which channel call.Done is: "nil" (fresh, cap 10), "shared", "unbuf"
    doneCount,  \* number of times call.done() sent this call
    qlen,       \* calls buffered in the shared Done channel
    sendCall,   \* send's local `call` after removeCall
    \* ---- the wire
    wire,       \* request frames that reached the peer, in order
    answered,   \* indexes of wire the peer has answered
    inbound,    \* response headers on their way to / buffered in the decoder
    \* ---- Client.receive
    rpc,        \* position of the receive goroutine
    rh,         \* the header it read
    rcall,      \* the call removeCall returned
    rerr,       \* its err variable
    termTodo,   \* keys of pending terminateCalls has still to visit
    \* ---- history
    issued,     \* seq values registerCall handed out, in order
    inserted,   \* seq -> number of insertions into pending
    removed,    \* seq -> number of deletions from pending
    snapshot,   \* calls pending when Close ran or ReadHeader failed
    closeRet,   \* what the Close invocations returned, in order
    codecCloses,\* number of times Client.Close called client.cc.Close()
    completedBy \* call -> seq of the response header that completed it (0: none)

VARIABLES
    \* ---- Server.ServeConn / serveCodec
    sState,     \* "Handshaking", "Serving", "Draining" (read loop left), "Closed"
    opt,        \* the Option ServeConn decoded
    sSending,   \* holder of serveCodec's sending mutex (NoOne: unlocked)
    wg,         \* serveCodec's WaitGroup counter
    handler,    \* request id -> position of its handleRequest goroutine
    \* ---- GobCodec
    sConnOpen,  \* g.conn is open
    sBuf,       \* g.buf: pieces encoded and not yet flushed
    \* ---- the connection and its peer
    peerMode,   \* "seq": the peer of main(), one request at a time; "pipe": it pipelines
    reqs,       \* request frames the peer sent, in order (a request's id is its index)
    nRead,      \* request frames the read loop has consumed
    respOut,    \* what the server put on the wire, piece by piece
    peerPos,    \* pieces of respOut the peer has read
    \* ---- history
    wres        \* request id -> how the Write of its response ended: "ok", "errHeader",
                \* "errBody", "lost" (Flush failed), "closed" (the stream was closed before)

svars == <<sState, opt, sSending, wg, handler, sConnOpen, sBuf,
           peerMode, reqs, nRead, respOut, peerPos, wres>>

cvars == <<seq, pending, closing, shutdown, sending, mu, header, connOpen,
           pc, callSeq, callErr, invokerChan, doneChan, doneCount, qlen, sendCall,
           wire, answered, inbound, rpc, rh, rcall, rerr, termTodo,
           issued, inserted, removed, snapshot, closeRet, codecCloses, completedBy>>

vars == <<cvars, svars>>

\* ------------------------------------------------------------ map helpers
EmptyMap == [x \in {} |-> NoCall]
MapPut(m, k, v) == [x \in (DOMAIN m) \cup {k} |-> IF x = k THEN v ELSE m[x]]
MapDel(m, k) == [x \in (DOMAIN m) \ {k} |-> m[x]]
MapGet(m, k) == IF k \in DOMAIN m THEN m[k] ELSE NoCall
Count(m, k) == IF k \in DOMAIN m THEN m[k] ELSE 0
Bump(m, k) == MapPut(m, k, Count(m, k) + 1)

NoHeader == [ServiceMethod |-> "", Seq |-> 0, Error |-> ""]

\* ------------------------------------------------------------------- Init
ClientInit ==
    /\ seq = InitSeq
    /\ pending = EmptyMap
    /\ closing = FALSE
    /\ shutdown = FALSE
    /\ sending = NoOne
    /\ mu = NoOne
    /\ header = NoHeader
    /\ connOpen = TRUE
    /\ pc = [c \in Calls |-> "idle"]
    /\ callSeq = [c \in Calls |-> 0]
    /\ callErr = [c \in Calls |-> ErrNil]
    /\ invokerChan \in {"nil", "shared"}
    /\ doneChan = [c \in Calls |-> "nil"]
    /\ doneCount = [c \in Calls |-> 0]
    /\ qlen = 0
    /\ sendCall = NoCall
    /\ wire = << >>
    /\ answered = {}
    /\ inbound = {}
    /\ rpc = "read"
    /\ rh = NoHeader
    /\ rcall = NoCall
    /\ rerr = ErrNil
    /\ termTodo = {}
    /\ issued = << >>
    /\ inserted = EmptyMap
    /\ removed = EmptyMap
    /\ snapshot = {}
    /\ closeRet = << >>
    /\ codecCloses = 0
    /\ completedBy = [c \in Calls |-> 0]

\* ------------------------------------------------------------- Call.done
\* c.Done <- c blocks while the channel is full
\* every channel has no buffer
CapNone(ch) == 0

\* cap(call.Done): Go turns a nil done into make(chan *Call, 10)
Cap(ch) ==
    IF ch = "nil" THEN DefaultDoneCap
    ELSE IF ch = "shared" THEN SharedCap
    ELSE 0

HasRoom(c) ==
    IF doneChan[c] = "shared" THEN qlen < Cap("shared")
    ELSE doneCount[c] < Cap(doneChan[c])

done(c) ==
    /\ HasRoom(c)
    /\ doneCount' = [doneCount EXCEPT ![c] = @ + 1]
    /\ qlen' = IF doneChan[c] = "shared" THEN qlen + 1 ELSE qlen

\* the invoker receives one completed call from the shared channel
Drain ==
    /\ qlen > 0
    /\ qlen' = qlen - 1
    /\ UNCHANGED svars
    /\ UNCHANGED <<invokerChan, closeRet, codecCloses, seq, pending, closing, shutdown, sending, mu, header, connOpen,
                   pc, callSeq, callErr, doneChan, doneCount, sendCall,
                   wire, answered, inbound, rpc, rh, rcall, rerr, termTodo,
                   issued, inserted, removed, snapshot, completedBy>>

PendingCalls == {pending[k] : k \in DOMAIN pending}

\* ------------------------------------------------------------ Client.Close
\* Close without the test of client.closing
AlreadyClosingNever == FALSE

\* if client.closing
AlreadyClosing == closing

\* IsAvailable: !client.shutdown && !client.closing, read under client.mu
IsAvailable == ~shutdown /\ ~closing

\* one invocation of Close, under client.mu from its first line to its return
Close ==
    /\ mu = NoOne
    /\ Len(closeRet) < MaxCloses
    /\ IF AlreadyClosing
       THEN /\ closeRet' = Append(closeRet, ErrShutdown)
            /\ UNCHANGED <<closing, connOpen, snapshot, codecCloses>>
       ELSE /\ closing' = TRUE
            /\ connOpen' = FALSE
            /\ codecCloses' = codecCloses + 1
            /\ closeRet' = Append(closeRet, CodecClose)
            /\ snapshot' = snapshot \cup PendingCalls
    /\ UNCHANGED svars
    /\ UNCHANGED <<invokerChan, seq, pending, shutdown, sending, mu, header,
                   pc, callSeq, callErr, doneChan, doneCount, qlen, sendCall,
                   wire, answered, inbound, rpc, rh, rcall, rerr, termTodo,
                   issued, inserted, removed, completedBy>>

\* ----------------------------------------------------- Client.registerCall
\* the test at the head of registerCall, forgetting client.closing
IsShutDownNoClosing == shutdown

\* the test at the head of registerCall, forgetting client.shutdown
IsShutDownNoShutdown == closing

\* the test at the head of registerCall
IsShutDown == shutdown \/ closing

\* client.seq++ left out
NextSeqStuck(s) == s

\* client.seq++ (a uint64: MaxCalls keeps it far from wrapping)
NextSeq(s) == s + 1

\* the body of registerCall once the test passed
registerCall(c) ==
    /\ callSeq' = [callSeq EXCEPT ![c] = seq]
    /\ pending' = MapPut(pending, seq, c)
    /\ seq' = NextSeq(seq)
    /\ issued' = Append(issued, seq)
    /\ inserted' = Bump(inserted, seq)

\* ------------------------------------------------------------- removeCall
\* delete(client.pending, seq) without the delete
removeCallKeep(s) ==
    UNCHANGED <<pending, removed>>

removeCall(s) ==
    /\ pending' = MapDel(pending, s)
    /\ removed' = IF s \in DOMAIN pending THEN Bump(removed, s) ELSE removed

\* ----------------------------------------------------------------- Go/send
\* calls are interchangeable until they start: they start in the order of their ids
MayStart(c) ==
    /\ pc[c] = "idle"
    /\ IF c = 1 THEN TRUE ELSE pc[c - 1] # "idle"

\* what an invoker passes to Go as done: its channel of choice, or an unbuffered one
DoneArgs == {invokerChan, "unbuf"}

\* Go without the test of cap(done)
PanicsOnNever(ch) == FALSE

\* done != nil && cap(done) == 0
PanicsOn(ch) == ch # "nil" /\ Cap(ch) = 0

\* cap(done) == 0: log.Panic before the Call is built
Go_panic(c) ==
    /\ MayStart(c)
    /\ \E ch \in DoneArgs :
        /\ PanicsOn(ch)
        /\ doneChan' = [doneChan EXCEPT ![c] = ch]
    /\ pc' = [pc EXCEPT ![c] = "panicked"]
    /\ UNCHANGED svars
    /\ UNCHANGED <<invokerChan, closeRet, codecCloses, seq, pending, closing, shutdown, sending, mu, header, connOpen,
                   callSeq, callErr, doneCount, qlen, sendCall,
                   wire, answered, inbound, rpc, rh, rcall, rerr, termTodo,
                   issued, inserted, removed, snapshot, completedBy>>

\* send without client.sending
SendingFreeUnlocked == TRUE

\* client.sending.Lock() can be taken
SendingFree == sending = NoOne

\* Go builds the Call; send locks client.sending and calls registerCall
Go_send(c) ==
    /\ MayStart(c)
    /\ SendingFree
    /\ mu = NoOne
    /\ \E ch \in DoneArgs :
        /\ ~PanicsOn(ch)
        /\ doneChan' = [doneChan EXCEPT ![c] = ch]
    /\ sending' = c
    /\ IF IsShutDown
       THEN /\ callErr' = [callErr EXCEPT ![c] = ErrShutdown]
            /\ pc' = [pc EXCEPT ![c] = "faildone"]
            /\ UNCHANGED <<seq, pending, callSeq, issued, inserted, header>>
       ELSE /\ registerCall(c)
            /\ header' = [ServiceMethod |-> FooSum, Seq |-> seq, Error |-> ""]
            /\ pc' = [pc EXCEPT ![c] = "write"]
            /\ UNCHANGED callErr
    /\ UNCHANGED svars
    /\ UNCHANGED <<invokerChan, closeRet, codecCloses, closing, shutdown, mu, connOpen, doneCount, qlen, sendCall,
                   wire, answered, inbound, rpc, rh, rcall, rerr, termTodo,
                   removed, snapshot, completedBy>>

\* client.cc.Write(&client.header, call.Args): the frame may or may not reach the
\* peer (GobCodec.Write ignores the Flush error); on an error the codec closes the stream
send_Write(c) ==
    /\ pc[c] = "write"
    /\ \E ok \in BOOLEAN, delivered \in BOOLEAN :
        /\ ~connOpen => ~delivered
        /\ wire' = IF delivered
                   THEN Append(wire, [Seq |-> header.Seq, call |-> c])
                   ELSE wire
        /\ IF ok
           THEN /\ pc' = [pc EXCEPT ![c] = "returned"]
                /\ sending' = NoOne
                /\ UNCHANGED connOpen
           ELSE /\ pc' = [pc EXCEPT ![c] = "remove"]
                /\ connOpen' = FALSE
                /\ UNCHANGED sending
    /\ UNCHANGED svars
    /\ UNCHANGED <<invokerChan, closeRet, codecCloses, seq, pending, closing, shutdown, mu, header,
                   callSeq, callErr, doneChan, doneCount, qlen, sendCall,
                   answered, inbound, rpc, rh, rcall, rerr, termTodo,
                   issued, inserted, removed, snapshot, completedBy>>

\* send's test of what removeCall returned, dropped
CallFoundAlways(call) == TRUE

\* if call != nil
CallFound(call) == call # NoCall

\* the write failed: call := client.removeCall(seq)
send_removeCall(c) ==
    /\ pc[c] = "remove"
    /\ mu = NoOne
    /\ removeCall(callSeq[c])
    /\ LET call == MapGet(pending, callSeq[c]) IN
       IF CallFound(call)
       THEN /\ callErr' = [callErr EXCEPT ![IF call # NoCall THEN call ELSE c] = ErrWrite]
            /\ sendCall' = IF call # NoCall THEN call ELSE c
            /\ pc' = [pc EXCEPT ![c] = "errdone"]
            /\ UNCHANGED sending
       ELSE /\ pc' = [pc EXCEPT ![c] = "returned"]
            /\ sending' = NoOne
            /\ UNCHANGED <<callErr, sendCall>>
    /\ UNCHANGED svars
    /\ UNCHANGED <<invokerChan, closeRet, codecCloses, seq, closing, shutdown, mu, header, connOpen,
                   callSeq, doneChan, doneCount, qlen,
                   wire, answered, inbound, rpc, rh, rcall, rerr, termTodo,
                   issued, inserted, snapshot, completedBy>>

\* call.done() on either failure path, then the deferred sending.Unlock()
send_done(c) ==
    /\ pc[c] \in {"faildone", "errdone"}
    /\ done(IF pc[c] = "faildone" THEN c ELSE sendCall)
    /\ sendCall' = NoCall
    /\ sending' = NoOne
    /\ pc' = [pc EXCEPT ![c] = "returned"]
    /\ UNCHANGED svars
    /\ UNCHANGED <<invokerChan, closeRet, codecCloses, seq, pending, closing, shutdown, mu, header, connOpen,
                   callSeq, callErr, doneChan,
                   wire, answered, inbound, rpc, rh, rcall, rerr, termTodo,
                   issued, inserted, removed, snapshot, completedBy>>

\* ----------------------------------------------------------------- the peer
\* the server answers a request frame it got; what its header says shows when it is read
Respond ==
    /\ \E i \in (1..Len(wire)) \ answered :
        /\ answered' = answered \cup {i}
        /\ inbound' = inbound \cup {wire[i].Seq}
    /\ UNCHANGED svars
    /\ UNCHANGED <<invokerChan, closeRet, codecCloses, seq, pending, closing, shutdown, sending, mu, header, connOpen,
                   pc, callSeq, callErr, doneChan, doneCount, qlen, sendCall,
                   wire, rpc, rh, rcall, rerr, termTodo,
                   issued, inserted, removed, snapshot, completedBy>>

\* ---------------------------------------------------------- Client.receive
\* client.cc.ReadHeader(&h) returns a response frame, Header.Error empty or not
receive_ReadHeader ==
    /\ rpc = "read"
    /\ \E s \in inbound, e \in {"", "E"} :
        /\ inbound' = inbound \ {s}
        /\ rh' = [ServiceMethod |-> FooSum, Seq |-> s, Error |-> e]
    /\ rpc' = "remove"
    /\ UNCHANGED svars
    /\ UNCHANGED <<invokerChan, closeRet, codecCloses, seq, pending, closing, shutdown, sending, mu, header, connOpen,
                   pc, callSeq, callErr, doneChan, doneCount, qlen, sendCall,
                   wire, answered, rcall, rerr, termTodo,
                   issued, inserted, removed, snapshot, completedBy>>

\* client.cc.ReadHeader(&h) returns an error (the stream was closed, or failed): break
receive_ReadHeaderErr ==
    /\ rpc = "read"
    /\ rerr' = ErrRead
    /\ rpc' = "term"
    /\ snapshot' = snapshot \cup PendingCalls
    /\ UNCHANGED svars
    /\ UNCHANGED <<invokerChan, closeRet, codecCloses, seq, pending, closing, shutdown, sending, mu, header, connOpen,
                   pc, callSeq, callErr, doneChan, doneCount, qlen, sendCall,
                   wire, answered, inbound, rh, rcall, termTodo,
                   issued, inserted, removed, completedBy>>

\* the key receive looks up, taken from client.header instead of the header read
ResponseKeyStale(h) == header.Seq

\* h.Seq
ResponseKey(h) == h.Seq

\* call := client.removeCall(h.Seq), then the switch up to call.done(): set call.Error
\* and ReadBody (into nil or call.Reply). ReadBody touches only the removed call and
\* the loop's err; the body may still be buffered in the decoder after a close
receive_removeCall ==
    /\ rpc = "remove"
    /\ mu = NoOne
    /\ removeCall(ResponseKey(rh))
    /\ LET call == MapGet(pending, ResponseKey(rh)) IN
       \E ok \in BOOLEAN :
        /\ rerr' = IF ok THEN ErrNil ELSE ErrRead
        /\ IF call = NoCall
           THEN /\ rpc' = IF ok THEN "read" ELSE "term"
                /\ rh' = NoHeader
                /\ UNCHANGED <<callErr, completedBy, rcall>>
           ELSE /\ rpc' = "done"
                /\ rcall' = call
                /\ callErr' = [callErr EXCEPT ![call] =
                                  IF rh.Error # "" THEN ErrResp
                                  ELSE IF ok THEN @ ELSE ErrBody]
                /\ completedBy' = [completedBy EXCEPT ![call] = rh.Seq]
                /\ UNCHANGED rh
    /\ UNCHANGED svars
    /\ UNCHANGED <<invokerChan, closeRet, codecCloses, seq, closing, shutdown, sending, mu, header, connOpen,
                   pc, callSeq, doneChan, doneCount, qlen, sendCall,
                   wire, answered, inbound, termTodo,
                   issued, inserted, snapshot>>

\* call.done(), then the loop test err == nil
receive_done ==
    /\ rpc = "done"
    /\ done(rcall)
    /\ rpc' = IF rerr = ErrNil THEN "read" ELSE "term"
    /\ rcall' = NoCall
    /\ rh' = NoHeader
    /\ UNCHANGED svars
    /\ UNCHANGED <<invokerChan, closeRet, codecCloses, seq, pending, closing, shutdown, sending, mu, header, connOpen,
                   pc, callSeq, callErr, doneChan, sendCall,
                   wire, answered, inbound, rerr, termTodo,
                   issued, inserted, removed, snapshot, completedBy>>

\* ------------------------------------------------------- terminateCalls
\* terminateCalls taking client.mu before client.sending
LockOrderMuFirst == <<"mu", "sending">>

\* the order of the two Lock() calls at the head of terminateCalls
LockOrder == <<"sending", "mu">>

LockFree(l) == IF l = "sending" THEN sending = NoOne ELSE mu = NoOne

Lock(l, who) ==
    /\ sending' = IF l = "sending" THEN who ELSE sending
    /\ mu' = IF l = "mu" THEN who ELSE mu

\* the first Lock() of terminateCalls
terminateCalls_lock ==
    /\ rpc = "term"
    /\ LockFree(LockOrder[1])
    /\ Lock(LockOrder[1], Receiver)
    /\ rpc' = "termlock"
    /\ UNCHANGED svars
    /\ UNCHANGED <<invokerChan, closeRet, codecCloses, seq, pending, closing, shutdown, header, connOpen,
                   pc, callSeq, callErr, doneChan, doneCount, qlen, sendCall,
                   wire, answered, inbound, rh, rcall, rerr, termTodo,
                   issued, inserted, removed, snapshot, completedBy>>

\* the second Lock(), then client.shutdown = true and the start of the range
terminateCalls_lock2 ==
    /\ rpc = "termlock"
    /\ LockFree(LockOrder[2])
    /\ Lock(LockOrder[2], Receiver)
    /\ shutdown' = TRUE
    /\ termTodo' = DOMAIN pending
    /\ rpc' = "termloop"
    /\ UNCHANGED svars
    /\ UNCHANGED <<invokerChan, closeRet, codecCloses, seq, pending, closing, header, connOpen,
                   pc, callSeq, callErr, doneChan, doneCount, qlen, sendCall,
                   wire, answered, inbound, rh, rcall, rerr,
                   issued, inserted, removed, snapshot, completedBy>>

\* one iteration of: for _, call := range client.pending { call.Error = err; call.done() }
terminateCalls_call ==
    /\ rpc = "termloop"
    /\ \E k \in termTodo :
        /\ done(pending[k])
        /\ callErr' = [callErr EXCEPT ![pending[k]] = rerr]
        /\ termTodo' = termTodo \ {k}
    /\ UNCHANGED svars
    /\ UNCHANGED <<invokerChan, closeRet, codecCloses, seq, pending, closing, shutdown, sending, mu, header, connOpen,
                   pc, callSeq, doneChan, sendCall,
                   wire, answered, inbound, rpc, rh, rcall, rerr,
                   issued, inserted, removed, snapshot, completedBy>>

\* the range is exhausted: the deferred unlocks; receive returns
terminateCalls_unlock ==
    /\ rpc = "termloop"
    /\ termTodo = {}
    /\ sending' = NoOne
    /\ mu' = NoOne
    /\ rpc' = "exited"
    /\ UNCHANGED svars
    /\ UNCHANGED <<invokerChan, closeRet, codecCloses, seq, pending, closing, shutdown, header, connOpen,
                   pc, callSeq, callErr, doneChan, doneCount, qlen, sendCall,
                   wire, answered, inbound, rh, rcall, rerr, termTodo,
                   issued, inserted, removed, snapshot, completedBy>>

\* ================================================================ server
Reqs == 1..MaxReqs
NoOpt == [MagicNumber |-> 0, CodecType |-> "none"]
\* the read loop of serveCodec, as holder of the sending mutex
ReadLoop == MaxReqs + 1

\* what the peer may send as its Option, and as a request frame: main() numbers its
\* requests from 0 and leaves Header.Error empty
Options == [MagicNumber : {MagicNumber, MagicNumber + 1}, CodecType : {GobType, JsonType, ""}]
RequestFrames(i) ==
    {[h |-> [ServiceMethod |-> sm, Seq |-> i - 1, Error |-> ""], bodyOk |-> b] :
        sm \in {FooSum, BarNope}, b \in BOOLEAN}

ServerInit ==
    /\ sState = "Handshaking"
    /\ opt = NoOpt
    /\ sSending = NoOne
    /\ wg = 0
    /\ handler = [i \in Reqs |-> "none"]
    /\ sConnOpen = TRUE
    /\ sBuf = << >>
    /\ peerMode \in {"seq", "pipe"}
    /\ reqs = << >>
    /\ nRead = 0
    /\ respOut = << >>
    /\ peerPos = 0
    /\ wres = [i \in Reqs |-> "none"]

\* ------------------------------------------------------------ the peer
\* cc.Write(h, body) in main(): one more request frame on the stream
PeerSend ==
    /\ Len(reqs) < MaxReqs
    /\ sConnOpen
    /\ peerMode = "seq" => peerPos = 2 * Len(reqs)
    /\ \E f \in RequestFrames(Len(reqs) + 1) : reqs' = Append(reqs, f)
    /\ UNCHANGED cvars
    /\ UNCHANGED <<sState, opt, sSending, wg, handler, sConnOpen, sBuf,
                   peerMode, nRead, respOut, peerPos, wres>>

\* cc.ReadHeader(h); cc.ReadBody(&reply) in main(): the next two pieces
PeerRead ==
    /\ peerPos + 2 <= Len(respOut)
    /\ peerPos' = peerPos + 2
    /\ UNCHANGED cvars
    /\ UNCHANGED <<sState, opt, sSending, wg, handler, sConnOpen, sBuf,
                   peerMode, reqs, nRead, respOut, wres>>

\* ---------------------------------------------------------- ServeConn
\* the magic number is not checked
MagicOKAny(o) == TRUE

\* opt.MagicNumber != MagicNumber
MagicOK(o) == o.MagicNumber = MagicNumber

\* codec.NewCodecFuncMap after init(): only GobType has a constructor
NewCodecFuncMap == {GobType}

\* json.NewDecoder(conn).Decode(&opt), the two checks, then serveCodec or the
\* deferred conn.Close()
ServeConn ==
    /\ sState = "Handshaking"
    /\ \/ \* Decode fails
          /\ UNCHANGED opt
          /\ sState' = "Closed"
          /\ sConnOpen' = FALSE
       \/ \E o \in Options :
            /\ opt' = o
            /\ IF MagicOK(o) /\ o.CodecType \in NewCodecFuncMap
               THEN sState' = "Serving" /\ UNCHANGED sConnOpen
               ELSE sState' = "Closed" /\ sConnOpen' = FALSE
    /\ UNCHANGED cvars
    /\ UNCHANGED <<sSending, wg, handler, sBuf,
                   peerMode, reqs, nRead, respOut, peerPos, wres>>

\* ------------------------------------------------------- GobCodec.Write
\* g.enc.Encode(x): the piece reaches g.buf, or Encode returns an error
Encode(buf, piece, ok) == IF ok THEN Append(buf, piece) ELSE buf

\* the deferred g.buf.Flush(): what reaches the stream; its error is dropped
Flush(buf, ok, open) == IF ok /\ open THEN buf ELSE << >>

\* Write(header, body) with the outcome of each step: what reaches the stream, the
\* error returned, and whether the deferred function ran g.Close()
Write(buf, hp, bp, hdrOk, bodyOk, flushOk, open) ==
    LET err == ~hdrOk \/ ~bodyOk
        encoded == IF ~hdrOk THEN Encode(buf, hp, FALSE)
                   ELSE Encode(Encode(buf, hp, TRUE), bp, bodyOk)
    IN [flushed |-> Flush(encoded, flushOk, open), err |-> err, closed |-> err]

\* ------------------------------------------------------ handleRequest
\* the header handleRequest answers with, built anew without the request's seq
ResponseHeaderFresh(req) == [ServiceMethod |-> req.h.ServiceMethod, Seq |-> 0, Error |-> ""]

\* handleRequest passes req.h itself to sendResponse
ResponseHeader(req) == req.h

\* fmt.Sprintf("geerpc resp %d", req.h.Seq)
ResponseBody(req) == <<"geerpc resp", req.h.Seq>>

\* var invalidRequest = struct{}{}
invalidRequest == <<"invalidRequest">>

HeaderPiece(i, h) == [kind |-> "header", id |-> i, h |-> h, body |-> << >>]
BodyPiece(i, b) == [kind |-> "body", id |-> i, h |-> NoHeader, body |-> b]

\* sendResponse without the sending mutex
SrvSendingFreeUnlocked == TRUE

\* sending.Lock() can be taken
SrvSendingFree == sSending = NoOne

\* handleRequest up to the header's Encode inside cc.Write: sending.Lock(), then
\* g.enc.Encode(header); when that fails Write returns through its deferred function,
\* and sendResponse and handleRequest through theirs (Unlock, wg.Done)
handleRequest_begin(i) ==
    /\ handler[i] = "ready"
    /\ SrvSendingFree
    /\ \E hdrOk \in BOOLEAN, flushOk \in BOOLEAN :
        LET encoded == Encode(sBuf, HeaderPiece(i, ResponseHeader(reqs[i])), hdrOk) IN
        IF hdrOk
        THEN /\ sBuf' = encoded
             /\ sSending' = i
             /\ handler' = [handler EXCEPT ![i] = "writing"]
             /\ UNCHANGED <<respOut, sConnOpen, wg, wres>>
        ELSE /\ respOut' = respOut \o Flush(encoded, flushOk, sConnOpen)
             /\ sBuf' = << >>
             /\ sConnOpen' = FALSE
             /\ wres' = [wres EXCEPT ![i] = "errHeader"]
             /\ sSending' = NoOne
             /\ wg' = wg - 1
             /\ handler' = [handler EXCEPT ![i] = "done"]
    /\ UNCHANGED cvars
    /\ UNCHANGED <<sState, opt, peerMode, reqs, nRead, peerPos>>

\* the rest of cc.Write: g.enc.Encode(body), the deferred Flush and (on an error)
\* g.Close(); then the deferred sending.Unlock() and wg.Done()
handleRequest_end(i) ==
    /\ handler[i] = "writing"
    /\ \E bodyOk \in BOOLEAN, flushOk \in BOOLEAN :
        LET encoded == Encode(sBuf, BodyPiece(i, ResponseBody(reqs[i])), bodyOk) IN
        /\ respOut' = respOut \o Flush(encoded, flushOk, sConnOpen)
        /\ sBuf' = << >>
        /\ sConnOpen' = (sConnOpen /\ bodyOk)
        /\ wres' = [wres EXCEPT ![i] = IF ~bodyOk THEN "errBody"
                                       ELSE IF ~sConnOpen THEN "closed"
                                       ELSE IF flushOk THEN "ok" ELSE "lost"]
    /\ sSending' = NoOne
    /\ wg' = wg - 1
    /\ handler' = [handler EXCEPT ![i] = "done"]
    /\ UNCHANGED cvars
    /\ UNCHANGED <<sState, opt, peerMode, reqs, nRead, peerPos>>

\* -------------------------------------------------------- serveCodec
\* the registry of the day-1 Server: type Server struct{} holds no service
serviceMap == {}

\* readRequest: readRequestHeader, then ReadBody into req.argv; a ReadBody error is
\* logged and dropped (return req, nil)
readRequest(frame, headerOk) ==
    IF ~headerOk
    THEN [req |-> "nil", err |-> TRUE]
    ELSE [req |-> frame, err |-> FALSE]

\* one turn of the for loop of serveCodec
serveCodec_read ==
    /\ sState = "Serving"
    /\ \E headerOk \in BOOLEAN :
        /\ headerOk => nRead < Len(reqs)
        /\ LET frame == IF headerOk THEN reqs[nRead + 1] ELSE [h |-> NoHeader, bodyOk |-> FALSE]
               r == readRequest(frame, headerOk)
               i == nRead + 1
           IN IF r.err
              THEN IF r.req = "nil"
                   THEN \* break
                        /\ sState' = "Draining"
                        /\ UNCHANGED <<nRead, wg, handler, respOut, sBuf, sConnOpen, wres, sSending>>
                   ELSE \* req.h.Error = err.Error(); sendResponse(cc, req.h, invalidRequest, sending)
                        /\ SrvSendingFree
                        /\ \E hdrOk \in BOOLEAN, bodyOk \in BOOLEAN, flushOk \in BOOLEAN :
                            LET w == Write(sBuf, HeaderPiece(i, [frame.h EXCEPT !.Error = ErrBody]),
                                           BodyPiece(i, invalidRequest), hdrOk, bodyOk, flushOk, sConnOpen)
                            IN /\ respOut' = respOut \o w.flushed
                               /\ sConnOpen' = (sConnOpen /\ ~w.closed)
                        /\ sBuf' = << >>
                        /\ nRead' = i
                        /\ UNCHANGED <<sState, wg, handler, wres, sSending>>
              ELSE \* wg.Add(1); go server.handleRequest(cc, req, sending, wg)
                   /\ nRead' = i
                   /\ wg' = wg + 1
                   /\ handler' = [handler EXCEPT ![i] = "ready"]
                   /\ UNCHANGED <<sState, respOut, sBuf, sConnOpen, wres, sSending>>
    /\ UNCHANGED cvars
    /\ UNCHANGED <<opt, peerMode, reqs, peerPos>>

\* serveCodec without wg.Wait()
HandlersDoneAny == TRUE

\* wg.Wait() returns
HandlersDone == wg = 0

\* wg.Wait() returned: cc.Close(), then ServeConn's deferred conn.Close()
serveCodec_close ==
    /\ sState = "Draining"
    /\ HandlersDone
    /\ sConnOpen' = FALSE
    /\ sState' = "Closed"
    /\ UNCHANGED cvars
    /\ UNCHANGED <<opt, sSending, wg, handler, sBuf,
                   peerMode, reqs, nRead, respOut, peerPos, wres>>

ServerNext ==
    \/ PeerSend
    \/ PeerRead
    \/ ServeConn
    \/ serveCodec_read
    \/ \E i \in Reqs : handleRequest_begin(i)
    \/ \E i \in Reqs : handleRequest_end(i)
    \/ serveCodec_close

\* a connection being served; the client side stays at rest
ServerSpecInit == ServerInit /\ ClientInit /\ invokerChan = "nil"

ServerSpec == ServerSpecInit /\ [][ServerNext]_vars

\* ------------------------------------------------------------ ClientSpec
ClientNext ==
    \/ \E c \in Calls : Go_panic(c)
    \/ \E c \in Calls : Go_send(c)
    \/ \E c \in Calls : send_Write(c)
    \/ \E c \in Calls : send_removeCall(c)
    \/ \E c \in Calls : send_done(c)
    \/ Close
    \/ Drain
    \/ Respond
    \/ receive_ReadHeader
    \/ receive_ReadHeaderErr
    \/ receive_removeCall
    \/ receive_done
    \/ terminateCalls_lock
    \/ terminateCalls_lock2
    \/ terminateCalls_call
    \/ terminateCalls_unlock

\* a client at work; the server side stays at rest
ClientSpecInit == ClientInit /\ ServerInit /\ peerMode = "seq"

ClientSpec == ClientSpecInit /\ [][ClientNext]_vars

\* what the scheduler and the peer guarantee: every goroutine that can step does, the
\* peer answers the frames it got, the invoker drains its channel, and a read on a
\* stream that was closed returns an error once the decoder's buffer is empty
ClientFairness ==
    /\ \A c \in Calls : WF_vars(send_Write(c))
    /\ \A c \in Calls : WF_vars(send_removeCall(c))
    /\ \A c \in Calls : WF_vars(send_done(c))
    /\ WF_vars(Drain)
    /\ WF_vars(Respond)
    /\ WF_vars(receive_ReadHeader)
    /\ WF_vars(receive_ReadHeaderErr /\ ~connOpen /\ inbound = {})
    /\ WF_vars(receive_removeCall)
    /\ WF_vars(receive_done)
    /\ WF_vars(terminateCalls_lock)
    /\ WF_vars(terminateCalls_lock2)
    /\ WF_vars(terminateCalls_call)
    /\ WF_vars(terminateCalls_unlock)

FairClientSpec == ClientSpec /\ ClientFairness

\* ================================================================= claims
Registered(c) == callSeq[c] # 0
OnWire(c) == \E i \in 1..Len(wire) : wire[i].call = c
InSend(c) == pc[c] \in {"write", "remove", "errdone", "faildone"}

\* C1: the seq values registerCall hands out start at 1, are strictly increasing in
\* the order of registration, and no value (and never 0) is given to two calls.
C1_SeqStrictlyIncreasing ==
    /\ Len(issued) > 0 => issued[1] = 1
    /\ \A i \in 1..Len(issued) : issued[i] # 0
    /\ \A i, j \in 1..Len(issued) : i < j => issued[i] < issued[j]
    /\ \A c, d \in Calls : (c # d /\ Registered(c)) => callSeq[c] # callSeq[d]
    /\ \A c \in Calls : Registered(c) => \E i \in 1..Len(issued) : issued[i] = callSeq[c]

C1_Witness ==
    /\ Len(issued) = MaxCalls
    /\ \E c \in Calls : pc[c] = "write"

\* C2: call.done() fires at most once for every call, and exactly once for a call whose
\* response the receive loop has handled, for a call whose Go returned after a failed
\* registration or a failed write, and for every registered call once terminateCalls
\* has returned.
C2_DoneExactlyOnce ==
    /\ \A c \in Calls : doneCount[c] <= 1
    /\ \A c \in Calls : (completedBy[c] # 0 /\ rcall # c) => doneCount[c] = 1
    /\ \A c \in Calls : (pc[c] = "returned" /\ callErr[c] \in {ErrShutdown, ErrWrite})
                            => doneCount[c] = 1
    /\ rpc = "exited" => \A c \in Calls : Registered(c) => doneCount[c] = 1

C2_Witness ==
    /\ rpc = "exited"
    /\ \E c \in Calls : completedBy[c] # 0 /\ doneCount[c] = 1
    /\ \E c \in Calls : callErr[c] = ErrRead /\ doneCount[c] = 1
    /\ \E c \in Calls : callErr[c] = ErrWrite /\ doneCount[c] = 1

C4_ClosedClientFailsFast ==
    /\ [][\A c \in Calls :
            (pc[c] = "idle" /\ (closing \/ shutdown) /\ pc'[c] \notin {"idle", "panicked"})
                => /\ pc'[c] = "faildone"
                   /\ callErr'[c] = ErrShutdown
                   /\ callSeq'[c] = 0
                   /\ seq' = seq /\ pending' = pending /\ wire' = wire]_vars
    /\ [][\A c \in Calls :
            (pc[c] = "faildone" /\ pc'[c] # "faildone")
                => /\ pc'[c] = "returned"
                   /\ doneCount'[c] = 1
                   /\ callErr'[c] = ErrShutdown
                   /\ seq' = seq /\ pending' = pending /\ wire' = wire]_vars
    /\ [](\A c \in Calls : callErr[c] = ErrShutdown => ~Registered(c) /\ ~OnWire(c))

C4_Witness ==
    \E c \in Calls :
        /\ callErr[c] = ErrShutdown
        /\ pc[c] = "returned"
        /\ doneCount[c] = 1
        /\ Len(wire) > 0

\* C7: every call whose request frame reached the server eventually signals
\* completion, whatever the order in which the responses arrive, and a response
\* header with seq s completes the call that was registered with seq s.
C7_AllCallsComplete ==
    /\ [](\A c \in Calls : completedBy[c] # 0 => completedBy[c] = callSeq[c])
    /\ \A c \in Calls : OnWire(c) ~> (doneCount[c] = 1)

\* the response to the second call is handled while the first call's is still waiting
C7_Witness ==
    /\ MaxCalls >= 2
    /\ completedBy[2] = callSeq[2] /\ Registered(2) /\ doneCount[2] = 1
    /\ callSeq[1] \in inbound
    /\ callSeq[1] \in DOMAIN pending
    /\ completedBy[1] = 0

\* C8: request frames reach the wire in strictly increasing seq order, each carrying
\* the seq of the call that wrote it; at most one invocation is between registration
\* and the end of its write, and while it is there client.header holds its seq and no
\* other call has been registered.
C8_FramesInSeqOrder ==
    /\ \A i, j \in 1..Len(wire) : i < j => wire[i].Seq < wire[j].Seq
    /\ \A i \in 1..Len(wire) : wire[i].Seq = callSeq[wire[i].call]
    /\ Cardinality({c \in Calls : InSend(c)}) <= 1
    /\ \A c \in Calls : pc[c] = "write" =>
            /\ sending = c
            /\ header.Seq = callSeq[c]
            /\ seq = callSeq[c] + 1

C8_Witness ==
    /\ Len(wire) >= 2
    /\ \E c \in Calls : pc[c] = "write"

\* C9 as stated: each seq is inserted at most once and removed at most once, and no
\* call whose completion has been signaled is still in the pending table.
C9_Original ==
    /\ \A s \in DOMAIN inserted : inserted[s] <= 1
    /\ \A s \in DOMAIN removed : removed[s] <= 1
    /\ \A c \in Calls : (doneCount[c] > 0 /\ Registered(c)) => callSeq[c] \notin DOMAIN pending

\* C9 amended: each seq is inserted at most once and removed at most once; a call
\* completed by the receive loop's response path or by send's write-failure path has
\* been removed before it is signaled; a call completed by terminateCalls stays in the
\* table, which then belongs to a client marked shut down.
C9_Amended ==
    /\ \A s \in DOMAIN inserted : inserted[s] <= 1
    /\ \A s \in DOMAIN removed : removed[s] <= 1
    /\ \A s \in DOMAIN removed : s \in DOMAIN inserted
    /\ \A c \in Calls : (doneCount[c] > 0 /\ Registered(c) /\ callSeq[c] \in DOMAIN pending)
            => /\ shutdown
               /\ rpc \in {"termloop", "exited"}
               /\ callErr[c] = ErrRead
               /\ completedBy[c] = 0
    /\ \A c \in Calls : (doneCount[c] > 0 /\ callErr[c] \in {ErrNil, ErrResp, ErrBody, ErrWrite})
            => callSeq[c] \notin DOMAIN pending

C9_Witness ==
    /\ rpc = "exited"
    /\ \E c \in Calls : doneCount[c] = 1 /\ callSeq[c] \in DOMAIN pending
    /\ \E c \in Calls : doneCount[c] = 1 /\ callSeq[c] \in DOMAIN removed

\* ---------------------------------------------------------- server claims
HeaderPieces(i) == {k \in 1..Len(respOut) : respOut[k].kind = "header" /\ respOut[k].id = i}
BodyPieces(i) == {k \in 1..Len(respOut) : respOut[k].kind = "body" /\ respOut[k].id = i}
OtherWritesFine(i) == \A j \in Reqs \ {i} : wres[j] \in {"none", "ok", "lost"}

\* C5 as stated: the response to a request that names a service or method that is
\* not registered has a non-empty Header.Error, and answering it leaves the
\* connection open for the read loop.
C5_Original ==
    /\ \A k \in 1..Len(respOut) :
            (respOut[k].kind = "header" /\ wres[respOut[k].id] = "ok"
                /\ reqs[respOut[k].id].h.ServiceMethod \notin serviceMap)
                => respOut[k].h.Error # ""
    /\ \A i \in Reqs :
            (wres[i] = "ok" /\ reqs[i].h.ServiceMethod \notin serviceMap
                /\ OtherWritesFine(i) /\ sState = "Serving")
                => sConnOpen

\* C6: when the Option read has a magic number other than MagicNumber, or a codec type
\* without a constructor, the connection is closed and the server has written
\* nothing, read no request frame and started no handler.
C6_BadHandshakeAborts ==
    (opt # NoOpt /\ (opt.MagicNumber # MagicNumber \/ opt.CodecType \notin NewCodecFuncMap))
        => /\ sState = "Closed"
           /\ ~sConnOpen
           /\ respOut = << >>
           /\ sBuf = << >>
           /\ nRead = 0
           /\ wg = 0
           /\ \A i \in Reqs : handler[i] = "none" /\ wres[i] = "none"

C6_Witness ==
    /\ opt.MagicNumber = MagicNumber + 1
    /\ opt.CodecType = GobType
    /\ sState = "Closed"
    /\ Len(reqs) > 0

C11_Original ==
    /\ \A i \in 1..nRead : ~reqs[i].bodyOk => handler[i] = "none"
    /\ \A k \in 1..Len(respOut) :
            ~reqs[respOut[k].id].bodyOk
                => IF respOut[k].kind = "header"
                   THEN respOut[k].h.Error # ""
                   ELSE respOut[k].body = invalidRequest

C13_WritesSerialized ==
    /\ Cardinality({i \in Reqs : handler[i] = "writing"}) <= 1
    /\ \A i \in Reqs : (handler[i] = "writing") <=> (sSending = i)
    /\ sSending = NoOne => sBuf = << >>
    /\ \A i \in Reqs : handler[i] = "writing" => sBuf = <<HeaderPiece(i, reqs[i].h)>>
    /\ \A k \in 1..Len(respOut) :
            /\ respOut[k].kind = "body"
                    => (k > 1 /\ respOut[k - 1].kind = "header" /\ respOut[k - 1].id = respOut[k].id)
            /\ respOut[k].kind = "header"
                    => IF k < Len(respOut)
                       THEN respOut[k + 1].kind = "body" /\ respOut[k + 1].id = respOut[k].id
                       ELSE wres[respOut[k].id] = "errBody"

\* two handlers wrote, the later request first
C13_Witness ==
    /\ Len(respOut) >= 4
    /\ respOut[1].id = 2 /\ respOut[2].id = 2
    /\ respOut[3].id = 1 /\ respOut[4].id = 1
    /\ \E i \in Reqs : handler[i] = "writing"

\* C14 as stated: a Write one of whose steps failed (Encode of the header, Encode of
\* the body, Flush) has closed the stream; while every Write went through the stream is
\* open, and between Writes the buffer is empty.
C14_Original ==
    /\ \A i \in Reqs : wres[i] \in {"errHeader", "errBody", "lost"} => ~sConnOpen
    /\ (sState \in {"Serving", "Draining"} /\ \A i \in Reqs : wres[i] \in {"none", "ok"}) => sConnOpen
    /\ sSending = NoOne => sBuf = << >>

C16_UnknownSeqDiscarded ==
    [][(rpc = "remove" /\ rpc' # "remove" /\ rh.Seq \notin DOMAIN pending)
            => /\ pending' = pending /\ removed' = removed
               /\ seq' = seq /\ closing' = closing /\ shutdown' = shutdown
               /\ doneCount' = doneCount /\ qlen' = qlen
               /\ callErr' = callErr /\ completedBy' = completedBy
               /\ rpc' \in {"read", "term"}
               /\ (rpc' = "read") <=> (rerr' = ErrNil)]_vars

\* the response to a call that send had already failed was read and dropped, and the
\* loop is back at ReadHeader with another call still pending
C16_Witness ==
    /\ rpc = "read" /\ rerr = ErrNil /\ ~shutdown
    /\ PendingCalls # {}
    /\ \E c \in Calls :
        /\ callErr[c] = ErrWrite /\ doneCount[c] = 1 /\ completedBy[c] = 0
        /\ \E i \in answered : wire[i].call = c
        /\ callSeq[c] \notin inbound

\* C17: client.mu is held across steps only by a task that already holds
\* client.sending, client.mu is taken by such a task only after client.sending, no task
\* takes client.sending while it holds client.mu, and no task waits for ever: every
\* send that took client.sending returns and every terminateCalls finishes.
C17_LockOrderNoDeadlock ==
    /\ [](mu # NoOne => sending = mu)
    /\ [][(mu = NoOne /\ mu' # NoOne) => sending = mu']_vars
    /\ [][(sending' # sending /\ sending' # NoOne) => mu # sending']_vars
    /\ \A c \in Calls : InSend(c) ~> (pc[c] = "returned")
    /\ (rpc = "term") ~> (rpc = "exited")

\* terminateCalls holds client.sending and is about to take client.mu, with one send
\* over and another invocation still to come
C17_Witness ==
    /\ rpc = "termlock" /\ sending = Receiver /\ mu = NoOne
    /\ PendingCalls # {}
    /\ \E c \in Calls : pc[c] = "returned"
    /\ \E c \in Calls : pc[c] = "idle"

\* C18: a Go that is handed an unbuffered done channel panics at once: it takes no seq,
\* leaves the pending table, the wire and the send lock alone and signals nothing; a Go
\* that is handed nil gives its call a channel of its own with room for DefaultDoneCap
\* calls.
C18_UnbufferedDonePanics ==
    /\ [][\A c \in Calls :
            (pc[c] = "idle" /\ doneChan'[c] = "unbuf")
                => /\ pc'[c] = "panicked"
                   /\ callSeq'[c] = 0
                   /\ seq' = seq /\ pending' = pending /\ wire' = wire
                   /\ sending' = sending /\ doneCount' = doneCount]_vars
    /\ [](\A c \in Calls : doneChan[c] = "unbuf" => pc[c] = "panicked")
    /\ [](\A c \in Calls : pc[c] = "panicked"
            => (callSeq[c] = 0 /\ doneCount[c] = 0 /\ ~OnWire(c) /\ c \notin PendingCalls))
    /\ [](invokerChan = "nil"
            => \A c \in Calls : pc[c] \notin {"idle", "panicked"}
                    => (doneChan[c] = "nil" /\ doneCount[c] < DefaultDoneCap))

C18_Witness ==
    /\ \E c \in Calls : pc[c] = "panicked" /\ seq = InitSeq + 1
    /\ \E c \in Calls : pc[c] = "returned" /\ doneCount[c] = 1 /\ doneChan[c] = "nil"
    /\ Len(wire) = 1

\* call c is the call a task is about to send on its Done channel
AtDone(c) ==
    \/ pc[c] = "faildone"
    \/ \E s \in Calls : pc[s] = "errdone" /\ sendCall = c
    \/ rpc = "done" /\ rcall = c
    \/ rpc = "termloop" /\ \E k \in termTodo : pending[k] = c

\* the calls whose Done is the channel the invoker shares between its calls
Sharers == {c \in Calls : doneChan[c] = "shared"}

\* C19 as stated: whenever send, the receive loop or terminateCalls is about to
\* execute call.done(), the call's channel has a free slot.
C19_Original ==
    \A c \in Calls : AtDone(c) => HasRoom(c)

\* C19 amended: call.done() finds a free slot when the call has the channel Go made
\* for it, and when its channel is shared by no more calls than it has slots; it waits
\* only on a full channel that more calls share than it has slots.
C19_Amended ==
    /\ \A c \in Calls : (AtDone(c) /\ doneChan[c] = "nil") => HasRoom(c)
    /\ \A c \in Calls : (AtDone(c) /\ doneChan[c] = "shared" /\ Cardinality(Sharers) <= SharedCap)
            => qlen < SharedCap
    /\ \A c \in Calls : (AtDone(c) /\ ~HasRoom(c))
            => (doneChan[c] = "shared" /\ qlen = SharedCap /\ Cardinality(Sharers) > SharedCap)

\* terminateCalls, holding both locks, has calls left to signal and the channel they
\* share is full
C19_Witness ==
    /\ rpc = "termloop" /\ mu = Receiver /\ sending = Receiver
    /\ termTodo # {}
    /\ \A k \in termTodo : ~HasRoom(pending[k])

\* C20: Close calls client.cc.Close() at most once; the first invocation sets closing
\* and returns what cc.Close() returned, every later one returns ErrShutdown and
\* changes nothing; IsAvailable, once false, stays false.
C20_CloseOnce ==
    /\ [](codecCloses <= 1)
    /\ [](Len(closeRet) > 0 => (closing /\ ~connOpen /\ codecCloses = 1))
    /\ [](\A i \in 1..Len(closeRet) :
            closeRet[i] = IF i = 1 THEN CodecClose ELSE ErrShutdown)
    /\ [][(Len(closeRet) > 0 /\ closeRet' # closeRet)
            => /\ closeRet' = Append(closeRet, ErrShutdown)
               /\ <<seq, pending, closing, shutdown, sending, mu, header, connOpen, codecCloses,
                     pc, callSeq, callErr, doneChan, doneCount, qlen, wire, inbound,
                     rpc, rh, rcall, rerr, termTodo>>'
                  = <<seq, pending, closing, shutdown, sending, mu, header, connOpen, codecCloses,
                      pc, callSeq, callErr, doneChan, doneCount, qlen, wire, inbound,
                      rpc, rh, rcall, rerr, termTodo>>]_vars
    /\ [][~IsAvailable => ~IsAvailable']_vars

C20_Witness ==
    /\ Len(closeRet) = MaxCloses
    /\ closeRet[MaxCloses] = ErrShutdown
    /\ codecCloses = 1
    /\ shutdown /\ rpc = "exited"
    /\ \E c \in Calls : callErr[c] = ErrShutdown

====
